---- MODULE Spec2Model ----
(***************************************************************************)
(* Deployment orchestrator (deployContract / upgradeContract) with its     *)
(* per-network deploy log file, as a state machine.  One action per        *)
(* awaited call of the orchestrator: the action decides the outcome of the *)
(* call and runs the synchronous code that follows it up to the next       *)
(* await.                                                                  *)
(***************************************************************************)
EXTENDS Integers, FiniteSets, Sequences, TLC

VARIABLES dirExists, fileExists, fileData, nextAddr, proxyImpl, verifyURL,
          call, lastDeployed, script, signer

vars == <<dirExists, fileExists, fileData, nextAddr, proxyImpl, verifyURL,
          call, lastDeployed, script, signer>>

(* ---------------------------- bounds ----------------------------------- *)
MaxAddr == 4
MaxFee == 1
MaxBalance == 1

Names == {"Token", "Vault"}
\* Orchestrator processes; Spec runs the first alone, ConcSpec runs both.
Procs == {1, 2}
SeqProcs == {1}

AddrLen == 2
MaxByte == 1
MaxLabelLen == 2
MaxKey == 2
MaxNonce == 1

Addr == 1..MaxAddr
NoAddr == 0
NoAmount == -1

(* ---------------------------- deploy log ------------------------------- *)
ImplKey(contractName) == contractName \o "_Implementation"

EmptyLog == [k \in {} |-> NoAddr]

Put(log, key, value) ==
    [k \in (DOMAIN log) \cup {key} |-> IF k = key THEN value ELSE log[k]]

Get(log, key) == IF key \in DOMAIN log THEN log[key] ELSE NoAddr

\* JSON.stringify of a flat object: its members, one key/value pair each.
JSONStringify(log) == {<<k, log[k]>> : k \in DOMAIN log}

\* JSON.parse of that text: the object with one property per member.
JSONParse(data) ==
    [k \in {m[1] : m \in data} |-> (CHOOSE m \in data : m[1] = k)[2]]

createOrGetDeployLogEmpty == EmptyLog

\* createOrGetDeployLog: {} when the file is absent, else the parsed file.
createOrGetDeployLog ==
    IF fileExists THEN JSONParse(fileData) ELSE EmptyLog

DeployEntryKeepFirst(log, contractName, address) ==
    IF contractName \in DOMAIN log THEN log ELSE Put(log, contractName, address)

\* deployContract, the log entries set after a deployment.
DeployEntry(log, contractName, address) == Put(log, contractName, address)

DeployImplEntryNoName(log, contractName, implementationAddress) ==
    Put(log, "_Implementation", implementationAddress)

DeployImplEntry(log, contractName, implementationAddress) ==
    Put(log, ImplKey(contractName), implementationAddress)

UpgradeImplEntryWrongKey(log, contractName, implementationAddress) ==
    Put(log, contractName, implementationAddress)

\* upgradeContract, the log entry set after an upgrade.
UpgradeImplEntry(log, contractName, implementationAddress) ==
    Put(log, ImplKey(contractName), implementationAddress)

EnoughBalanceSwapped(balance, amount) == ~(amount < balance)

\* verifyEnoughBalance throws when balance < amount.
EnoughBalance(balance, amount) == ~(balance < amount)

ProxyAddressFoundAlways(log, contractName) == TRUE

\* upgradeContract: if (!proxyAddress) throw
ProxyAddressFound(log, contractName) == Get(log, contractName) # NoAddr

LoadArtifactCatchAll(error) == "ArtifactNotFound"

\* The catch handler of loadArtifact: the "not found" error of the resolver
\* is replaced by the compile hint, any other error is rethrown as it is.
LoadArtifactCatch(error) ==
    IF error = "notFound" THEN "ArtifactNotFound" ELSE "ResolverError"

WantsVerifyIgnoresOptOut(noVerify, url) == url

\* if (!options?.noVerify && hre.network.config.verifyURL)
WantsVerify(noVerify, url) == (~noVerify) /\ url

(* ---------------------------- calls ------------------------------------ *)
IdleCall ==
    [pc |-> "idle", op |-> "none", name |-> "", upgradable |-> FALSE,
     noVerify |-> FALSE, deployLog |-> EmptyLog, fee |-> NoAmount,
     balance |-> NoAmount, contract |-> NoAddr, proxyAddress |-> NoAddr,
     implRead |-> NoAddr, handle |-> NoAddr, result |-> "none",
     gw |-> {}, resolved |-> FALSE, artifact |-> "none", verifyRequests |-> 0, saves |-> 0,
     startExists |-> FALSE, startData |-> {}]

NewCall(op, name, upgradable, noVerify) ==
    [IdleCall EXCEPT !.op = op, !.name = name, !.upgradable = upgradable,
                     !.noVerify = noVerify,
                     !.deployLog = createOrGetDeployLog,
                     !.startExists = fileExists, !.startData = fileData]

Fail(c, error) == [c EXCEPT !.pc = "done", !.result = error]

Return(c, address) ==
    [c EXCEPT !.pc = "done", !.result = "returned", !.handle = address]

\* As WriteLog, but an existing file is not overwritten.
WriteLogOnce(log) ==
    /\ fileExists' = TRUE
    /\ fileData' = IF fileExists THEN fileData ELSE JSONStringify(log)

\* As WriteLog, but the entries already in the file are kept (a merge).
WriteLogMerge(log) ==
    /\ fileExists' = TRUE
    /\ fileData' = JSONStringify(
          [k \in (DOMAIN JSONParse(fileData)) \cup (DOMAIN log) |->
              IF k \in DOMAIN log THEN log[k] ELSE JSONParse(fileData)[k]])

\* fs.writeFileSync(deployLogPath, JSON.stringify(deployLog, null, 2))
WriteLog(log) ==
    /\ fileExists' = TRUE
    /\ fileData' = JSONStringify(log)

NoWrite == UNCHANGED <<fileExists, fileData>>
NoChain == UNCHANGED <<nextAddr, proxyImpl>>

\* The mint script and the signer, before they run.
IdleScript ==
    [pc |-> "idle", kind |-> "none", key |-> 0, count |-> 0, i |-> 0,
     submitted |-> 0, confirmed |-> 0, steps |-> {}, result |-> "none"]

IdleSigner ==
    [recipient |-> <<>>, category |-> <<>>, key |-> 0, nonce |-> 0,
     signed |-> FALSE, signature |-> <<>>, error |-> "none"]

Init ==
    /\ script = IdleScript
    /\ signer = IdleSigner
    /\ dirExists = FALSE
    /\ fileExists = FALSE
    /\ fileData = {}
    /\ nextAddr = 1
    /\ proxyImpl = [a \in Addr |-> NoAddr]
    /\ verifyURL \in BOOLEAN
    /\ call = [p \in Procs |-> IdleCall]
    /\ lastDeployed = [n \in Names |-> NoAddr]

(* ---------------------------- deployContract --------------------------- *)
\* Outcome of wallet.getBalance() followed by the balance check.
verifyEnoughBalance(c, balance, nextPc) ==
    LET d == [c EXCEPT !.balance = balance, !.gw = @ \cup {"getBalance"}]
    IN  IF EnoughBalance(balance, c.fee)
        THEN [d EXCEPT !.pc = nextPc]
        ELSE Fail(d, "InsufficientBalance")

\* Lines after the log file is written: request verification or return.
AfterDeploySave(c, address) ==
    IF WantsVerify(c.noVerify, verifyURL)
    THEN [c EXCEPT !.pc = "verify", !.verifyRequests = @ + 1]
    ELSE Return(c, address)

\* As DeployStart, but loading the log creates the missing file.
DeployStartCreatesFile(p, name, upgradable, noVerify, walletOk) ==
    /\ call[p].pc \in {"idle", "done"}
    /\ dirExists' = TRUE
    /\ fileExists' = TRUE
    /\ LET c == NewCall("deploy", name, upgradable, noVerify)
       IN  call' = [call EXCEPT ![p] =
                IF walletOk THEN [c EXCEPT !.pc = "loadArtifact"]
                ELSE Fail(c, "WalletNotConfigured")]
    /\ NoChain
    /\ UNCHANGED <<fileData, verifyURL, lastDeployed, script, signer>>

DeployStart(p, name, upgradable, noVerify, walletOk) ==
    /\ call[p].pc \in {"idle", "done"}
    /\ dirExists' = TRUE
    /\ LET c == NewCall("deploy", name, upgradable, noVerify)
       IN  call' = [call EXCEPT ![p] =
                IF walletOk THEN [c EXCEPT !.pc = "loadArtifact"]
                ELSE Fail(c, "WalletNotConfigured")]
    /\ NoWrite /\ NoChain
    /\ UNCHANGED <<verifyURL, lastDeployed, script, signer>>

DeployLoadArtifact(p) ==
    /\ call[p].op = "deploy" /\ call[p].pc = "loadArtifact"
    /\ \E outcome \in {"found", "notFound", "otherError"} :
         call' = [call EXCEPT ![p] =
            IF outcome = "found"
            THEN [@ EXCEPT !.pc = "estimateFee", !.resolved = TRUE,
                           !.artifact = outcome]
            ELSE Fail([@ EXCEPT !.artifact = outcome], LoadArtifactCatch(outcome))]
    /\ NoWrite /\ NoChain
    /\ UNCHANGED <<dirExists, verifyURL, lastDeployed, script, signer>>

DeployEstimateFee(p) ==
    /\ call[p].op = "deploy" /\ call[p].pc = "estimateFee"
    /\ LET c == [call[p] EXCEPT !.gw = @ \cup {"estimateFee"}]
       IN  \/ \E fee \in 0..MaxFee :
                call' = [call EXCEPT ![p] =
                            [c EXCEPT !.fee = fee, !.pc = "balance"]]
           \/ call' = [call EXCEPT ![p] = Fail(c, "ChainFailure")]
    /\ NoWrite /\ NoChain
    /\ UNCHANGED <<dirExists, verifyURL, lastDeployed, script, signer>>

DeployVerifyEnoughBalance(p) ==
    /\ call[p].op = "deploy" /\ call[p].pc = "balance"
    /\ \/ \E balance \in 0..MaxBalance :
            call' = [call EXCEPT ![p] =
                        verifyEnoughBalance(@, balance, "submit")]
       \/ call' = [call EXCEPT ![p] =
            Fail([@ EXCEPT !.gw = @ \cup {"getBalance"}], "ChainFailure")]
    /\ NoWrite /\ NoChain
    /\ UNCHANGED <<dirExists, verifyURL, lastDeployed, script, signer>>

\* hre.zkUpgrades.deployProxy: an implementation and a proxy pointing at it.
DeployProxy(p) ==
    /\ call[p].upgradable
    /\ LET c == [call[p] EXCEPT !.gw = @ \cup {"deployProxy"}]
       IN  \/ /\ nextAddr + 1 <= MaxAddr
              /\ proxyImpl' = [proxyImpl EXCEPT ![nextAddr + 1] = nextAddr]
              /\ nextAddr' = nextAddr + 2
              /\ call' = [call EXCEPT ![p] =
                    [c EXCEPT !.contract = nextAddr + 1, !.pc = "getAddress"]]
           \/ /\ call' = [call EXCEPT ![p] = Fail(c, "ChainFailure")]
              /\ NoChain

\* deployer.deploy: a plain contract.
DeployDirect(p) ==
    /\ ~call[p].upgradable
    /\ LET c == [call[p] EXCEPT !.gw = @ \cup {"deploy"}]
       IN  \/ /\ nextAddr <= MaxAddr
              /\ nextAddr' = nextAddr + 1
              /\ UNCHANGED proxyImpl
              /\ call' = [call EXCEPT ![p] =
                    [c EXCEPT !.contract = nextAddr, !.pc = "getAddress"]]
           \/ /\ call' = [call EXCEPT ![p] = Fail(c, "ChainFailure")]
              /\ NoChain

DeploySubmit(p) ==
    /\ call[p].op = "deploy" /\ call[p].pc = "submit"
    /\ (DeployProxy(p) \/ DeployDirect(p))
    /\ NoWrite
    /\ UNCHANGED <<dirExists, verifyURL, lastDeployed, script, signer>>

\* As DeployGetAddress, but the log file is written before the
\* implementation address of a proxy has been read back.
DeployGetAddressEarlySave(p) ==
    /\ call[p].op = "deploy" /\ call[p].pc = "getAddress"
    /\ LET c == call[p]
           address == c.contract
           log == DeployEntry(c.deployLog, c.name, address)
           d == [c EXCEPT !.deployLog = log, !.saves = @ + 1]
       IN  /\ WriteLog(log)
           /\ IF c.upgradable
              THEN /\ call' = [call EXCEPT ![p] = [d EXCEPT !.pc = "getImpl"]]
                   /\ UNCHANGED lastDeployed
              ELSE /\ lastDeployed' = [lastDeployed EXCEPT ![c.name] = address]
                   /\ call' = [call EXCEPT ![p] = AfterDeploySave(d, address)]
    /\ NoChain
    /\ UNCHANGED <<dirExists, verifyURL, script, signer>>

\* contract.getAddress(), the log entry, and for a direct deployment the
\* write of the log file.
DeployGetAddress(p) ==
    /\ call[p].op = "deploy" /\ call[p].pc = "getAddress"
    /\ LET c == call[p]
           address == c.contract
           log == DeployEntry(c.deployLog, c.name, address)
           d == [c EXCEPT !.deployLog = log]
       IN  IF c.upgradable
           THEN /\ call' = [call EXCEPT ![p] = [d EXCEPT !.pc = "getImpl"]]
                /\ NoWrite
                /\ UNCHANGED lastDeployed
           ELSE /\ WriteLog(log)
                /\ lastDeployed' = [lastDeployed EXCEPT ![c.name] = address]
                /\ call' = [call EXCEPT ![p] =
                      AfterDeploySave([d EXCEPT !.saves = @ + 1], address)]
    /\ NoChain
    /\ UNCHANGED <<dirExists, verifyURL, script, signer>>

\* getImplementationAddress(provider, address), its log entry, the write.
DeployGetImpl(p) ==
    /\ call[p].op = "deploy" /\ call[p].pc = "getImpl"
    /\ LET c == [call[p] EXCEPT !.gw = @ \cup {"resolveImplementation"}]
           address == c.contract
       IN  \/ /\ proxyImpl[address] # NoAddr
              /\ LET impl == proxyImpl[address]
                     log == DeployImplEntry(c.deployLog, c.name, impl)
                     d == [c EXCEPT !.deployLog = log, !.implRead = impl,
                                    !.saves = @ + 1]
                 IN  /\ WriteLog(log)
                     /\ call' = [call EXCEPT ![p] = AfterDeploySave(d, address)]
              /\ lastDeployed' = [lastDeployed EXCEPT ![c.name] = address]
           \/ /\ call' = [call EXCEPT ![p] = Fail(c, "ChainFailure")]
              /\ NoWrite
              /\ UNCHANGED lastDeployed
    /\ NoChain
    /\ UNCHANGED <<dirExists, verifyURL, script, signer>>

\* Outcome of verifyContract: the request id, or its error, which
\* deployContract does not catch.
DeployVerify(p) ==
    /\ call[p].op = "deploy" /\ call[p].pc = "verify"
    /\ \/ call' = [call EXCEPT ![p] = Return(@, @.contract)]
       \/ call' = [call EXCEPT ![p] = Fail(@, "VerificationFailure")]
    /\ NoWrite /\ NoChain
    /\ UNCHANGED <<dirExists, verifyURL, lastDeployed, script, signer>>

Deploy(p) ==
    \/ \E name \in Names, upgradable \in BOOLEAN, noVerify \in BOOLEAN,
          walletOk \in BOOLEAN :
            DeployStart(p, name, upgradable, noVerify, walletOk)
    \/ DeployLoadArtifact(p)
    \/ DeployEstimateFee(p)
    \/ DeployVerifyEnoughBalance(p)
    \/ DeploySubmit(p)
    \/ DeployGetAddress(p)
    \/ DeployGetImpl(p)
    \/ DeployVerify(p)

(* ---------------------------- upgradeContract -------------------------- *)
UpgradeStart(p, name, upgradable, noVerify, walletOk) ==
    /\ call[p].pc \in {"idle", "done"}
    /\ dirExists' = TRUE
    /\ LET c == NewCall("upgrade", name, upgradable, noVerify)
       IN  call' = [call EXCEPT ![p] =
                IF walletOk THEN [c EXCEPT !.pc = "loadArtifact"]
                ELSE Fail(c, "WalletNotConfigured")]
    /\ NoWrite /\ NoChain
    /\ UNCHANGED <<verifyURL, lastDeployed, script, signer>>

UpgradeLoadArtifact(p) ==
    /\ call[p].op = "upgrade" /\ call[p].pc = "loadArtifact"
    /\ \E outcome \in {"found", "notFound", "otherError"} :
         call' = [call EXCEPT ![p] =
            IF outcome = "found"
            THEN [@ EXCEPT !.pc = "estimateFee", !.resolved = TRUE,
                           !.artifact = outcome]
            ELSE Fail([@ EXCEPT !.artifact = outcome], LoadArtifactCatch(outcome))]
    /\ NoWrite /\ NoChain
    /\ UNCHANGED <<dirExists, verifyURL, lastDeployed, script, signer>>

UpgradeEstimateFee(p) ==
    /\ call[p].op = "upgrade" /\ call[p].pc = "estimateFee"
    /\ LET c == [call[p] EXCEPT !.gw = @ \cup {"estimateFee"}]
       IN  \/ \E fee \in 0..MaxFee :
                call' = [call EXCEPT ![p] =
                            [c EXCEPT !.fee = fee, !.pc = "balance"]]
           \/ call' = [call EXCEPT ![p] = Fail(c, "ChainFailure")]
    /\ NoWrite /\ NoChain
    /\ UNCHANGED <<dirExists, verifyURL, lastDeployed, script, signer>>

UpgradeVerifyEnoughBalance(p) ==
    /\ call[p].op = "upgrade" /\ call[p].pc = "balance"
    /\ \/ \E balance \in 0..MaxBalance :
            call' = [call EXCEPT ![p] =
                        verifyEnoughBalance(@, balance, "checkProxy")]
       \/ call' = [call EXCEPT ![p] =
            Fail([@ EXCEPT !.gw = @ \cup {"getBalance"}], "ChainFailure")]
    /\ NoWrite /\ NoChain
    /\ UNCHANGED <<dirExists, verifyURL, lastDeployed, script, signer>>

\* if (options?.upgradable) { proxyAddress lookup } else { throw }
UpgradeCheckProxy(p) ==
    /\ call[p].op = "upgrade" /\ call[p].pc = "checkProxy"
    /\ LET c == call[p]
       IN  call' = [call EXCEPT ![p] =
             IF c.upgradable
             THEN IF ProxyAddressFound(c.deployLog, c.name)
                  THEN [c EXCEPT !.proxyAddress = Get(c.deployLog, c.name),
                                 !.pc = "upgradeProxy"]
                  ELSE Fail(c, "ProxyNotFound")
             ELSE Fail(c, "UpgradeRequiresUpgradableFlag")]
    /\ NoWrite /\ NoChain
    /\ UNCHANGED <<dirExists, verifyURL, lastDeployed, script, signer>>

\* hre.zkUpgrades.upgradeProxy: a new implementation behind the proxy; it is
\* rejected when the address is not a proxy.
UpgradeProxy(p) ==
    /\ call[p].op = "upgrade" /\ call[p].pc = "upgradeProxy"
    /\ LET c == [call[p] EXCEPT !.gw = @ \cup {"upgradeProxy"}]
       IN  \/ /\ c.proxyAddress \in Addr
              /\ proxyImpl[c.proxyAddress] # NoAddr
              /\ nextAddr <= MaxAddr
              /\ proxyImpl' = [proxyImpl EXCEPT ![c.proxyAddress] = nextAddr]
              /\ nextAddr' = nextAddr + 1
              /\ call' = [call EXCEPT ![p] = [c EXCEPT !.pc = "getImpl"]]
           \/ /\ call' = [call EXCEPT ![p] = Fail(c, "ChainFailure")]
              /\ NoChain
    /\ NoWrite
    /\ UNCHANGED <<dirExists, verifyURL, lastDeployed, script, signer>>

\* sleep, getImplementationAddress(provider, proxyAddress), the log entry,
\* the write of the log file.
UpgradeGetImpl(p) ==
    /\ call[p].op = "upgrade" /\ call[p].pc = "getImpl"
    /\ LET c == [call[p] EXCEPT !.gw = @ \cup {"resolveImplementation"}]
       IN  \/ /\ c.proxyAddress \in Addr
              /\ proxyImpl[c.proxyAddress] # NoAddr
              /\ LET impl == proxyImpl[c.proxyAddress]
                     log == UpgradeImplEntry(c.deployLog, c.name, impl)
                 IN  /\ WriteLog(log)
                     /\ call' = [call EXCEPT ![p] =
                           [c EXCEPT !.deployLog = log, !.implRead = impl,
                                     !.saves = @ + 1, !.pc = "getContract"]]
           \/ /\ call' = [call EXCEPT ![p] = Fail(c, "ChainFailure")]
              /\ NoWrite
    /\ NoChain
    /\ UNCHANGED <<dirExists, verifyURL, lastDeployed, script, signer>>

\* hre.ethers.getContractAt(abi, deployLog[contractName]), getAddress, then
\* request verification or return.
UpgradeGetContract(p) ==
    /\ call[p].op = "upgrade" /\ call[p].pc = "getContract"
    /\ LET c == call[p]
           d == [c EXCEPT !.contract = Get(c.deployLog, c.name)]
       IN  call' = [call EXCEPT ![p] =
             IF WantsVerify(c.noVerify, verifyURL)
             THEN [d EXCEPT !.pc = "verify", !.verifyRequests = @ + 1]
             ELSE Return(d, d.contract)]
    /\ NoWrite /\ NoChain
    /\ UNCHANGED <<dirExists, verifyURL, lastDeployed, script, signer>>

\* Outcome of verifyContract, whose error upgradeContract does not catch.
UpgradeVerify(p) ==
    /\ call[p].op = "upgrade" /\ call[p].pc = "verify"
    /\ \/ call' = [call EXCEPT ![p] = Return(@, @.contract)]
       \/ call' = [call EXCEPT ![p] = Fail(@, "VerificationFailure")]
    /\ NoWrite /\ NoChain
    /\ UNCHANGED <<dirExists, verifyURL, lastDeployed, script, signer>>

Upgrade(p) ==
    \/ \E name \in Names, upgradable \in BOOLEAN, noVerify \in BOOLEAN,
          walletOk \in BOOLEAN :
            UpgradeStart(p, name, upgradable, noVerify, walletOk)
    \/ UpgradeLoadArtifact(p)
    \/ UpgradeEstimateFee(p)
    \/ UpgradeVerifyEnoughBalance(p)
    \/ UpgradeCheckProxy(p)
    \/ UpgradeProxy(p)
    \/ UpgradeGetImpl(p)
    \/ UpgradeGetContract(p)
    \/ UpgradeVerify(p)

(* ---------------------------- specification ---------------------------- *)
\* One orchestrator process per network: calls run one after the other.
Next == \E p \in SeqProcs : Deploy(p) \/ Upgrade(p)

Spec == Init /\ [][Next]_vars

\* Two orchestrator processes on the same network, interleaved at their
\* awaits: nothing in the code serialises them.  They start from the state
\* one successful proxy deployment of Token leaves, and each makes one call.
ConcInit ==
    /\ script = IdleScript
    /\ signer = IdleSigner
    /\ dirExists = TRUE
    /\ fileExists = TRUE
    /\ fileData = JSONStringify(
          DeployImplEntry(DeployEntry(EmptyLog, "Token", 2), "Token", 1))
    /\ nextAddr = 3
    /\ proxyImpl = [a \in Addr |-> IF a = 2 THEN 1 ELSE NoAddr]
    /\ verifyURL \in BOOLEAN
    /\ call = [p \in Procs |-> IdleCall]
    /\ lastDeployed = [n \in Names |-> IF n = "Token" THEN 2 ELSE NoAddr]

ConcDeployStart(p, name, upgradable, noVerify, walletOk) ==
    /\ call[p].pc = "idle"
    /\ DeployStart(p, name, upgradable, noVerify, walletOk)

ConcUpgradeStart(p, name, upgradable, noVerify, walletOk) ==
    /\ call[p].pc = "idle"
    /\ UpgradeStart(p, name, upgradable, noVerify, walletOk)

ConcNext ==
    \E p \in Procs :
      \/ \E name \in Names, upgradable \in BOOLEAN, noVerify \in BOOLEAN,
            walletOk \in BOOLEAN :
              \/ ConcDeployStart(p, name, upgradable, noVerify, walletOk)
              \/ ConcUpgradeStart(p, name, upgradable, noVerify, walletOk)
      \/ DeployLoadArtifact(p)
      \/ DeployEstimateFee(p)
      \/ DeployVerifyEnoughBalance(p)
      \/ DeploySubmit(p)
      \/ DeployGetAddress(p)
      \/ DeployGetImpl(p)
      \/ DeployVerify(p)
      \/ UpgradeLoadArtifact(p)
      \/ UpgradeEstimateFee(p)
      \/ UpgradeVerifyEnoughBalance(p)
      \/ UpgradeCheckProxy(p)
      \/ UpgradeProxy(p)
      \/ UpgradeGetImpl(p)
      \/ UpgradeGetContract(p)
      \/ UpgradeVerify(p)

ConcSpec == ConcInit /\ [][ConcNext]_vars

(* ---------------------------- witness signer -------------------------- *)
\* Recipient addresses are AddrLen raw bytes, category labels are the bytes
\* of a string of any length up to MaxLabelLen.
Bytes == 0..MaxByte
Recipients == [1..AddrLen -> Bytes]
Categories == UNION {[1..n -> Bytes] : n \in 0..MaxLabelLen}
NoKey == 0
Keys == 1..MaxKey

MessageRecipientOnly(recipient, category) == recipient

\* The message: the recipient's address bytes followed by the label bytes.
Message(recipient, category) == recipient \o category

\* The hash of the message, collision free.
Digest(message) == [len |-> Len(message), of |-> message]

PublicKey(key) == [pub |-> key]

\* The signature of the digest under the key; the nonce makes it fresh.
getSignature(recipient, category, key, nonce) ==
    [digest |-> Digest(Message(recipient, category)),
     by |-> PublicKey(key), nonce |-> nonce]

\* Verification of a signature against a message and a public key.
Verify(signature, message, publicKey) ==
    /\ signature.digest = Digest(message)
    /\ signature.by = publicKey

\* The recipient and the signer key are fixed for a run; NoKey is a run
\* without a key.
SignInit ==
    /\ \E recipient \in Recipients, key \in Keys \cup {NoKey} :
         signer = [IdleSigner EXCEPT !.recipient = recipient, !.key = key]
    /\ script = IdleScript
    /\ dirExists = FALSE
    /\ fileExists = FALSE
    /\ fileData = {}
    /\ nextAddr = 1
    /\ proxyImpl = [a \in Addr |-> NoAddr]
    /\ verifyURL = FALSE
    /\ call = [p \in Procs |-> IdleCall]
    /\ lastDeployed = [n \in Names |-> NoAddr]

\* sign(recipient, category, signerKey)
Sign(category, nonce) ==
    /\ signer' =
         IF signer.key = NoKey
         THEN [signer EXCEPT !.category = category,
                             !.error = "MissingSignerKey"]
         ELSE [signer EXCEPT
                 !.category = category, !.nonce = nonce, !.signed = TRUE,
                 !.signature =
                     getSignature(signer.recipient, category, signer.key, nonce)]
    /\ UNCHANGED <<dirExists, fileExists, fileData, nextAddr, proxyImpl,
                   verifyURL, call, lastDeployed, script>>

SignNext ==
    \E category \in Categories, nonce \in 0..MaxNonce : Sign(category, nonce)

SignSpec == SignInit /\ [][SignNext]_vars

(* ---------------------------- mint scripts ---------------------------- *)
\* The exported function of the three mint scripts: interact.ts mints once,
\* the mystery box script 12 times, the trademark script once per trademark.
InteractMints == 1
MysteryBoxMints == 12
TrademarkMints == 4

ScriptKinds == {"interact", "mysteryBox", "trademark"}

Mints(kind) ==
    CASE kind = "interact" -> InteractMints
      [] kind = "mysteryBox" -> MysteryBoxMints
      [] OTHER -> TrademarkMints

ScriptFail(s, error) == [s EXCEPT !.pc = "done", !.result = error]

SignerKeyMissingNever(key) == FALSE

\* if (!process.env.WITNESS_SINGER_PRIVATE_KEY) throw
SignerKeyMissing(key) == key = NoKey

AfterWaitIgnored(s, ok) == [s EXCEPT !.pc = "balanceAfter"]

\* await transaction.wait(): the transaction is confirmed, or its failure
\* ends the script.
AfterWait(s, ok) ==
    IF ok
    THEN [s EXCEPT !.confirmed = @ + 1, !.pc = "balanceAfter"]
    ELSE ScriptFail(s, "ChainFailure")

NoOrchestrator ==
    UNCHANGED <<dirExists, fileExists, fileData, nextAddr, proxyImpl,
                verifyURL, call, lastDeployed, signer>>

ScriptStart(kind, key) ==
    /\ script.pc = "idle"
    /\ LET s == [IdleScript EXCEPT !.kind = kind, !.key = key,
                                   !.count = Mints(kind)]
       IN  script' = IF SignerKeyMissing(key)
                     THEN ScriptFail(s, "MissingSignerKey")
                     ELSE [s EXCEPT !.pc = "readArtifact"]
    /\ NoOrchestrator

\* hre.artifacts.readArtifact, then the contract instance with getWallet().
ScriptReadArtifact ==
    /\ script.pc = "readArtifact"
    /\ LET s == [script EXCEPT !.steps = @ \cup {"readArtifact"}]
       IN  \E outcome \in {"found", "notFound", "noWallet"} :
             script' =
               CASE outcome = "found" -> [s EXCEPT !.pc = "balanceOf"]
                 [] outcome = "notFound" -> ScriptFail(s, "ArtifactNotFound")
                 [] OTHER -> ScriptFail(s, "WalletNotConfigured")
    /\ NoOrchestrator

\* contract.balanceOf(accountAddress) before the first mint.
ScriptBalanceOf ==
    /\ script.pc = "balanceOf"
    /\ LET s == [script EXCEPT !.steps = @ \cup {"balanceOf"}]
       IN  \/ script' = [s EXCEPT !.pc = "mint"]
           \/ script' = ScriptFail(s, "ChainFailure")
    /\ NoOrchestrator

\* await contract.safeMint(...): transaction i is submitted or rejected.
ScriptMint ==
    /\ script.pc = "mint"
    /\ LET s == [script EXCEPT !.steps = @ \cup {"safeMint"}]
       IN  \/ script' = [s EXCEPT !.submitted = @ + 1, !.pc = "wait"]
           \/ script' = ScriptFail(s, "ChainFailure")
    /\ NoOrchestrator

ScriptWait ==
    /\ script.pc = "wait"
    /\ \E ok \in BOOLEAN : script' = AfterWait(script, ok)
    /\ NoOrchestrator

\* contract.balanceOf after the mint, then the next iteration or the end.
ScriptBalanceAfter ==
    /\ script.pc = "balanceAfter"
    /\ \/ script' = IF script.i + 1 < script.count
                    THEN [script EXCEPT !.i = @ + 1, !.pc = "mint"]
                    ELSE [script EXCEPT !.i = @ + 1, !.pc = "done",
                                        !.result = "finished"]
       \/ script' = ScriptFail(script, "ChainFailure")
    /\ NoOrchestrator

MintInit ==
    /\ Init
    /\ verifyURL = FALSE

MintNext ==
    \/ \E kind \in ScriptKinds, key \in Keys \cup {NoKey} :
         ScriptStart(kind, key)
    \/ ScriptReadArtifact
    \/ ScriptBalanceOf
    \/ ScriptMint
    \/ ScriptWait
    \/ ScriptBalanceAfter

MintSpec == MintInit /\ [][MintNext]_vars

(* ---------------------------- properties ------------------------------- *)
\* The ledger a load of the log file returns now, and the one the call
\* loaded when it started.
PersistedLedger == JSONParse(fileData)
StartLedger(c) == JSONParse(c.startData)
FileUnchanged(c) == fileExists = c.startExists /\ fileData = c.startData
Submissions == {"deploy", "deployProxy", "upgradeProxy"}

\* C1: a deploy or upgrade call whose estimated fee exceeds the signer's
\* balance fails with InsufficientBalance; it issues no deploy, deployProxy
\* or upgradeProxy, produces no contract handle and does not write the
\* log file.
C1_BalanceGuard ==
    \A p \in Procs :
      LET c == call[p]
      IN  (c.fee # NoAmount /\ c.balance # NoAmount /\ c.fee > c.balance)
          => /\ c.pc = "done" /\ c.result = "InsufficientBalance"
             /\ c.gw \cap Submissions = {}
             /\ c.contract = NoAddr /\ c.handle = NoAddr
             /\ c.saves = 0 /\ FileUnchanged(c)

C1_Witness ==
    \E p \in Procs :
      /\ call[p].op = "upgrade" /\ call[p].result = "InsufficientBalance"
      /\ call[p].fee > call[p].balance /\ call[p].balance # NoAmount
      /\ call[p].name \in DOMAIN PersistedLedger

\* C2: an upgrade call with the upgradable flag, a resolved artifact and a
\* balance covering the fee, for a name the ledger has no entry for, ends
\* with ProxyNotFound, issues no upgradeProxy and leaves the log file as it
\* was.
C2_ProxyNotFound ==
    \A p \in Procs :
      LET c == call[p]
      IN  (/\ c.op = "upgrade" /\ c.upgradable /\ c.resolved
           /\ c.fee # NoAmount /\ c.balance # NoAmount /\ c.balance >= c.fee
           /\ c.name \notin DOMAIN StartLedger(c))
          => /\ c.pc \in {"checkProxy", "done"}
             /\ c.pc = "done" => c.result = "ProxyNotFound"
             /\ "upgradeProxy" \notin c.gw
             /\ c.saves = 0 /\ FileUnchanged(c)

C2_Witness ==
    \E p \in Procs :
      /\ call[p].op = "upgrade" /\ call[p].result = "ProxyNotFound"
      /\ call[p].upgradable /\ call[p].balance >= call[p].fee
      /\ call[p].name \notin DOMAIN PersistedLedger
      /\ fileExists /\ fileData # {}

\* C3: after a successful upgrade of N the ledger entry N is what it was
\* before the call, the entry N_Implementation is the implementation read
\* back from the proxy after the upgrade, and the returned handle is bound
\* to that unchanged proxy address.
C3_UpgradeKeepsProxy ==
    \A p \in Procs :
      LET c == call[p]
          proxy == Get(StartLedger(c), c.name)
      IN  (c.op = "upgrade" /\ c.pc = "done" /\ c.result = "returned")
          => /\ proxy # NoAddr
             /\ Get(PersistedLedger, c.name) = proxy
             /\ Get(PersistedLedger, ImplKey(c.name)) = c.implRead
             /\ c.implRead = proxyImpl[proxy]
             /\ c.handle = proxy

C3_Witness ==
    \E p \in Procs :
      /\ call[p].op = "upgrade" /\ call[p].result = "returned"
      /\ Get(PersistedLedger, ImplKey(call[p].name))
            # Get(StartLedger(call[p]), ImplKey(call[p].name))

\* C4: for every name N the ledger entry N is the address produced by the
\* most recent deploy of N whose on-chain step and read-back succeeded; a
\* second deploy overwrites the first and an upgrade never changes it.
C4_MostRecentDeploy ==
    \A n \in Names : Get(PersistedLedger, n) = lastDeployed[n]

C4_Witness ==
    \E p \in Procs :
      LET c == call[p]
      IN  /\ c.op = "deploy" /\ c.pc = "done" /\ c.result = "returned"
          /\ Get(StartLedger(c), c.name) # NoAddr
          /\ Get(StartLedger(c), c.name) # lastDeployed[c.name]
          /\ Get(PersistedLedger, c.name) = c.handle

\* C5: the key N_Implementation is in the ledger only if the key N is and
\* the address stored under N is an upgradable proxy.
C5_ImplOnlyForProxy ==
    \A n \in Names :
      ImplKey(n) \in DOMAIN PersistedLedger
      => /\ n \in DOMAIN PersistedLedger
         /\ proxyImpl[PersistedLedger[n]] # NoAddr

FatalErrors ==
    {"WalletNotConfigured", "ArtifactNotFound", "ResolverError",
     "InsufficientBalance", "UpgradeRequiresUpgradableFlag", "ProxyNotFound",
     "ChainFailure"}

C7_VerificationNotEscalated ==
    \A p \in Procs :
      LET c == call[p]
      IN  (c.pc = "done" /\ c.saves > 0)
          => (c.result = "returned" /\ c.handle # NoAddr)

\* C8: an upgrade call without the upgradable flag fails with
\* UpgradeRequiresUpgradableFlag, whatever the artifact, fee and balance
\* are, before any artifact resolution, fee estimation or balance query.
C8_FlagCheckedFirst ==
    \A p \in Procs :
      LET c == call[p]
      IN  (/\ c.op = "upgrade" /\ ~c.upgradable
           /\ c.result # "WalletNotConfigured")
          => /\ ~c.resolved /\ c.gw = {}
             /\ c.pc = "done" => c.result = "UpgradeRequiresUpgradableFlag"

\* C9: an upgrade call for a name that the ledger does not resolve to a
\* proxy address (absent, or recorded by a direct deploy) makes no fee
\* estimation, balance query or upgradeProxy submission.
C9_UnknownProxyFailsBeforeChain ==
    \A p \in Procs :
      LET c == call[p]
          recorded == Get(StartLedger(c), c.name)
      IN  (/\ c.op = "upgrade"
           /\ (recorded = NoAddr \/ proxyImpl[recorded] = NoAddr))
          => c.gw \cap {"estimateFee", "getBalance", "upgradeProxy"} = {}

\* The ledger the call started from with the call's own entries applied.
WithCallEntries(c) ==
    LET start == StartLedger(c)
    IN  IF c.op = "deploy"
        THEN IF c.upgradable
             THEN Put(Put(start, c.name, c.contract), ImplKey(c.name), c.implRead)
             ELSE Put(start, c.name, c.contract)
        ELSE Put(start, ImplKey(c.name), c.implRead)

\* C10: at every point of a call the persisted ledger is the ledger as it
\* was before the call or that ledger with the call's entries applied; the
\* log file is written at most once in a call and before the call returns,
\* and no entry persisted by an earlier call is lost.
C10_WriteThrough ==
    \A p \in Procs :
      LET c == call[p]
      IN  c.pc # "idle"
          => /\ c.saves \in {0, 1}
             /\ c.saves = 0 => PersistedLedger = StartLedger(c)
             /\ c.saves = 1 => PersistedLedger = WithCallEntries(c)
             /\ c.result = "returned" => c.saves = 1
             /\ DOMAIN StartLedger(c) \subseteq DOMAIN PersistedLedger
             /\ \A k \in DOMAIN StartLedger(c) \ {c.name, ImplKey(c.name)} :
                    PersistedLedger[k] = StartLedger(c)[k]

C10_Witness ==
    \E p \in Procs :
      LET c == call[p]
      IN  /\ c.pc = "verify" /\ c.saves = 1
          /\ DOMAIN StartLedger(c) \ {c.name, ImplKey(c.name)} # {}
          /\ PersistedLedger # StartLedger(c)

\* C11: a save is a full overwrite with the saving call's own copy of the
\* ledger.  When the file is still as the call loaded it (sequential
\* execution) the save keeps every persisted entry; when two calls both
\* loaded before either saved, the later save discards the earlier one's
\* entry (C11_Witness).
C11_FullOverwrite ==
    [][\A p \in Procs :
         call'[p].saves = call[p].saves + 1
         => /\ PersistedLedger' = call'[p].deployLog
            /\ FileUnchanged(call[p])
               => \A k \in DOMAIN PersistedLedger :
                    /\ k \in DOMAIN PersistedLedger'
                    /\ k \notin {call[p].name, ImplKey(call[p].name)}
                       => PersistedLedger'[k] = PersistedLedger[k]]_vars

C11_Witness ==
    \E p, q \in Procs :
      /\ p # q
      /\ call[p].op = "deploy" /\ call[p].result = "returned"
      /\ call[q].op = "deploy" /\ call[q].result = "returned"
      /\ call[p].name # call[q].name
      /\ call[p].saves = 1 /\ call[q].saves = 1
      /\ call[p].name \notin DOMAIN PersistedLedger

\* C12: under sequential execution a step of a call for name N changes at
\* most the ledger keys N and N_Implementation: every other key keeps its
\* presence and its value, and no key is ever removed.
C12_Frame ==
    [][\A p \in Procs :
         call'[p].pc # "idle"
         => /\ DOMAIN PersistedLedger \subseteq DOMAIN PersistedLedger'
            /\ \A k \in DOMAIN PersistedLedger' :
                 k \notin {call'[p].name, ImplKey(call'[p].name)}
                 => /\ k \in DOMAIN PersistedLedger
                    /\ PersistedLedger'[k] = PersistedLedger[k]]_vars

C12_Witness ==
    \E p \in Procs :
      LET c == call[p]
      IN  /\ c.op = "deploy" /\ c.upgradable /\ c.saves = 1
          /\ DOMAIN StartLedger(c) \ {c.name, ImplKey(c.name)} # {}
          /\ c.name \in DOMAIN StartLedger(c)
          /\ PersistedLedger[c.name] # StartLedger(c)[c.name]

\* C13: when the resolver does not find the contract, deploy and upgrade
\* fail with ArtifactNotFound, and any other resolver error reaches the
\* caller as it was thrown; in both cases no chain gateway call was made
\* and the log file was not written.
C13_ArtifactNotFound ==
    \A p \in Procs :
      LET c == call[p]
      IN  /\ c.artifact = "notFound" => c.result = "ArtifactNotFound"
          /\ c.artifact = "otherError" => c.result = "ResolverError"
          /\ c.artifact \in {"notFound", "otherError"}
             => /\ c.pc = "done" /\ c.gw = {} /\ c.contract = NoAddr
                /\ c.saves = 0 /\ FileUnchanged(c)
          /\ c.artifact = "none" => c.gw = {}

C13_Witness ==
    \E p \in Procs :
      /\ call[p].op = "upgrade" /\ call[p].artifact = "otherError"
      /\ call[p].result = "ResolverError" /\ fileData # {}

\* A call whose on-chain step and ledger write succeeded and that has
\* passed the point where verification is requested.
Succeeded(c) == c.saves = 1 /\ c.pc \in {"verify", "done"}

\* C14 as stated: after every successful deploy or upgrade exactly one
\* verification request was issued when noVerify is not set, and none when
\* it is set.
C14_VerifyIffNotNoVerify ==
    \A p \in Procs :
      LET c == call[p]
      IN  Succeeded(c)
          => c.verifyRequests = (IF c.noVerify THEN 0 ELSE 1)

\* C14 as amended: after every successful deploy or upgrade exactly one
\* verification request was issued when noVerify is not set and the network
\* configuration has a verifyURL, and none otherwise; a call that did not
\* succeed issued none.
C14_VerifyIffWanted ==
    \A p \in Procs :
      LET c == call[p]
      IN  /\ Succeeded(c)
             => c.verifyRequests
                  = (IF (~c.noVerify) /\ verifyURL THEN 1 ELSE 0)
          /\ ~Succeeded(c) => c.verifyRequests = 0

C14_Witness ==
    \E p \in Procs :
      /\ call[p].op = "upgrade" /\ call[p].result = "returned"
      /\ ~call[p].noVerify /\ verifyURL /\ call[p].verifyRequests = 1

\* C15: a call on a network without a log file loads an empty ledger and
\* creates no file (only the log directory); the file comes into existence
\* with the first successful write, so a first call that fails before its
\* save leaves the network without a log file.
C15_LazyRecord ==
    /\ fileExists => (dirExists /\ fileData # {})
    /\ \A p \in Procs :
         LET c == call[p]
         IN  (c.pc # "idle" /\ ~c.startExists)
             => /\ dirExists
                /\ StartLedger(c) = EmptyLog
                /\ c.contract = NoAddr => c.deployLog = EmptyLog
                /\ c.saves = 0 => ~fileExists
                /\ c.saves = 1 => fileExists

C15_Witness ==
    \E p \in Procs :
      /\ call[p].op = "deploy" /\ call[p].upgradable
      /\ call[p].result = "ChainFailure" /\ call[p].contract # NoAddr
      /\ ~call[p].startExists /\ ~fileExists /\ dirExists

\* C16: a signature made for a recipient and a category label under a key
\* verifies against the message of the same recipient and label, and fails
\* against the message of the same recipient with any other label.
C16_CategoryBound ==
    signer.signed
    => \A category \in Categories :
         Verify(signer.signature, Message(signer.recipient, category),
                PublicKey(signer.key))
         <=> category = signer.category

C16_Witness ==
    /\ signer.signed /\ Len(signer.category) > 0
    /\ \E category \in Categories :
         /\ category # signer.category
         /\ ~Verify(signer.signature, Message(signer.recipient, category),
                    PublicKey(signer.key))

\* C17: mint transactions are strictly sequential: a transaction is
\* submitted only when every earlier one is confirmed, at most one
\* submitted transaction is unconfirmed, and after a submission or
\* confirmation failure of transaction i nothing later was submitted.
C17_SequentialMints ==
    /\ script.submitted - script.confirmed \in {0, 1}
    /\ script.submitted <= script.count
    /\ script.pc = "mint"
       => (script.submitted = script.i /\ script.confirmed = script.i)
    /\ script.pc = "wait"
       => (script.submitted = script.i + 1 /\ script.confirmed = script.i)
    /\ script.pc = "balanceAfter" => script.confirmed = script.i + 1
    /\ (script.pc = "done" /\ script.result = "ChainFailure")
       => (script.submitted <= script.i + 1 /\ script.confirmed >= script.i)

C17_Witness ==
    /\ script.kind = "trademark" /\ script.result = "ChainFailure"
    /\ script.i = 2 /\ script.submitted = 3 /\ script.confirmed = 2

\* C18: a mint script started without a witness signer key fails with the
\* missing-signer-key error and has not read the artifact, read a balance
\* or submitted a mint transaction.
C18_MissingSignerKey ==
    (script.pc # "idle" /\ script.key = NoKey)
    => /\ script.pc = "done" /\ script.result = "MissingSignerKey"
       /\ script.steps = {}
       /\ script.submitted = 0

C18_Witness ==
    /\ script.kind = "mysteryBox" /\ script.key = NoKey
    /\ script.result = "MissingSignerKey"

\* C19: a proxy-mode deploy of N persists N and N_Implementation in one
\* save: whenever the persisted ledger holds the newly deployed proxy
\* address under N, it holds that proxy's implementation under
\* N_Implementation, not the one recorded before the call.
C19_SingleSave ==
    \A p \in Procs :
      LET c == call[p]
      IN  (/\ c.op = "deploy" /\ c.upgradable /\ c.contract # NoAddr
           /\ Get(PersistedLedger, c.name) = c.contract)
          => /\ c.saves = 1
             /\ ImplKey(c.name) \in DOMAIN PersistedLedger
             /\ PersistedLedger[ImplKey(c.name)] = proxyImpl[c.contract]
             /\ PersistedLedger[ImplKey(c.name)]
                  # Get(StartLedger(c), ImplKey(c.name))

C19_Witness ==
    \E p \in Procs :
      LET c == call[p]
      IN  /\ c.op = "deploy" /\ c.upgradable /\ c.saves = 1
          /\ Get(StartLedger(c), ImplKey(c.name)) # NoAddr
          /\ Get(PersistedLedger, c.name) = c.contract

\* C20: when deploy or upgrade returns a contract handle for N, the
\* persisted ledger maps N to the address of that handle.
C20_HandleIsLedgerEntry ==
    \A p \in Procs :
      LET c == call[p]
      IN  (c.pc = "done" /\ c.result = "returned")
          => (c.handle # NoAddr /\ Get(PersistedLedger, c.name) = c.handle)

C20_Witness ==
    \E p \in Procs :
      LET c == call[p]
      IN  /\ c.op = "deploy" /\ c.pc = "done" /\ c.result = "returned"
          /\ Get(StartLedger(c), c.name) \notin {NoAddr, c.handle}
          /\ DOMAIN StartLedger(c) \ {c.name, ImplKey(c.name)} # {}

====
